---- MODULE Spec2Model ----
(***************************************************************************)
(* Model of dls_topaz3/evaluate_model.py: one run of evaluate(), from the  *)
(* model load to "return True".                                            *)
(*                                                                         *)
(* Scores are fixed-point numbers in halves: the integer k stands for the  *)
(* score k/2, so 0, 1, 2 are 0.0, 0.5 and 1.0.  A prediction is the pair   *)
(* <<pred[0], pred[1]>> (negative channel, positive channel).  Aggregates  *)
(* (np.mean, np.sum / slices_per_structure) are exact rationals            *)
(* [num, den]; "x > 0.5" is 2 * num > den.                                 *)
(*                                                                         *)
(* A file of the test directory is its stem, [name, num] for               *)
(* "<name>_<num>".  Nothing in evaluate() reads the number, so a listing   *)
(* numbers the slices of a structure in the order it lists them; the order *)
(* of the structures' files in the listing is arbitrary, as glob's is.     *)
(***************************************************************************)
EXTENDS Integers, Sequences, FiniteSets

\* Largest number of files in the test directory.
MaxFiles == 4
\* Largest slices_per_structure argument.
MaxS == 2

StructureNames == {"a", "b"}

\* Prediction pairs the network may return, in halves: (0,1), (1,0) and the
\* tie (0.5,0.5) sum to 1; (0,0.5) does not.
PredictionValues == { <<0, 2>>, <<2, 0>>, <<1, 1>>, <<0, 1>> }

\* Contents of the ai_labels table, Name -> Label.
Databases == { [n \in {"a", "b"} |-> IF n = "a" THEN 1 ELSE 0],
               [n \in {"a"} |-> 1] }

\* The output files in the order evaluate() writes them.
WriteOrder == << "raw_predictions.csv", "per_image_class.csv", "per_image_conf.csv",
                 "averaged_predictions.csv", "counted_predictions.csv",
                 "average_class.csv", "average_conf.csv",
                 "count_class.csv", "count_conf.csv" >>

VARIABLES
    pc,                           \* position in evaluate()
    error,                        \* the exception that ended the run, or "none"
    returned,                     \* TRUE once evaluate() has returned True
    slices_per_structure,         \* argument
    test_dir,                     \* what glob.glob(test_dir/*) returns
    database,                     \* the ai_labels table of database_file
    train_files, names, train_labels,
    predict_calls,                \* calls of model.predict_generator
    predictions, predictions_decoded,
    per_image_class, per_image_conf,
    predictions_structure_avg, average_dataframe,
    predictions_structure_count, counted_dataframe,
    predictions_struct_avg_flat, predictions_struct_count_flat,
    testing_info_by_structure,
    structure_avg_class, structure_avg_conf,
    structure_count_class, structure_count_conf,
    written                       \* files written so far, in order

inputs == << slices_per_structure, test_dir, database >>
files_vars == << train_files, names, train_labels >>
image_vars == << per_image_class, per_image_conf >>
avg_vars == << predictions_structure_avg, average_dataframe >>
count_vars == << predictions_structure_count, counted_dataframe >>
flat_vars == << predictions_struct_avg_flat, predictions_struct_count_flat,
                testing_info_by_structure, structure_avg_class, structure_avg_conf >>
scount_vars == << structure_count_class, structure_count_conf >>
vars == << pc, error, returned, inputs, files_vars, predict_calls, predictions,
           predictions_decoded, image_vars, avg_vars, count_vars, flat_vars,
           scount_vars, written >>

----------------------------------------------------------------------------
\* Helpers: Python and numpy primitives.

Min(a, b) == IF a < b THEN a ELSE b

\* range(n)
Range(n) == 0 .. (n - 1)

\* int(a / b) for a >= 0, b > 0
IntDiv(a, b) == a \div b

RECURSIVE SeqSum(_)
SeqSum(xs) == IF xs = << >> THEN 0 ELSE xs[1] + SeqSum(Tail(xs))

\* int(b) of a comparison result
BoolInt(b) == IF b THEN 1 ELSE 0

\* column c of a sequence of pairs: xs[:, c]
Column(xs, c) == [k \in 1 .. Len(xs) |-> xs[k][c + 1]]

M_PySlice(xs, lo, hi) ==
    [k \in 1 .. (Min(hi - 1, Len(xs)) - Min(lo, Len(xs))) |-> xs[lo + k]]

\* xs[lo:hi], 0-based, half-open, cut at the end of xs
PySlice(xs, lo, hi) ==
    [k \in 1 .. (Min(hi, Len(xs)) - Min(lo, Len(xs))) |-> xs[lo + k]]

\* np.mean of scores in halves, as an exact rational
np_mean(xs) == [num |-> SeqSum(xs), den |-> 2 * Len(xs)]

\* np.sum(xs) / d, as an exact rational
np_sum_over(xs, d) == [num |-> SeqSum(xs), den |-> d]

M_GtHalf(r) == 2 * r.num >= r.den

\* pred > 0.5
GtHalf(r) == 2 * r.num > r.den

----------------------------------------------------------------------------
\* Inputs.

\* The stems of a listing whose i-th file belongs to structure ns[i].
Stems(ns) ==
    [i \in 1 .. Len(ns) |->
        [name |-> ns[i],
         num |-> Cardinality({j \in 1 .. i : ns[j] = ns[i]})]]

Listings ==
    { Stems(ns) : ns \in UNION { [1 .. n -> StructureNames] : n \in 0 .. MaxFiles } }

\* model.predict_generator returns one pair per image of steps * batch_size.
PredictionSets(n) == [1 .. n -> PredictionValues]

----------------------------------------------------------------------------
\* The computations of evaluate().

M_CardinalityOk(files, S) == Len(files) > 0

\* the two assertions on the listing
CardinalityOk(files, S) == Len(files) > 0 /\ Len(files) % S = 0

\* re.findall("(.*)(?=_[0-9]+)", Path(file).stem)[0]
StructureName(file) == file.name

Names(files) == [k \in 1 .. Len(files) |-> StructureName(files[k])]

\* [data_indexed.at[name, "Label"] for name in names]
TrainLabels(ns, table) == [k \in 1 .. Len(ns) |-> table[ns[k]]]

M_PredictionsDecoded(preds) ==
    [k \in 1 .. Len(preds) |-> BoolInt(preds[k][2] >= preds[k][1])]

\* [int(pred[1] > pred[0]) for pred in predictions]
PredictionsDecoded(preds) ==
    [k \in 1 .. Len(preds) |-> BoolInt(preds[k][2] > preds[k][1])]

\* number of structures: int(len(xs) / slices_per_structure)
NumStructures(xs, S) == IntDiv(Len(xs), S)

\* the rows of structure i: xs[S * i : S * i + S]
StructureSlice(xs, S, i) == PySlice(xs, S * i, S * i + S)

PredictionsStructureAvg(preds, S) ==
    LET row(i) == << np_mean(StructureSlice(Column(preds, 0), S, i)),
                     np_mean(StructureSlice(Column(preds, 1), S, i)) >>
    IN  [k \in 1 .. NumStructures(preds, S) |-> row(k - 1)]

M_PredictionsByResult(preds) ==
    [k \in 1 .. Len(preds) |->
        << BoolInt(preds[k][1] > preds[k][2]), BoolInt(preds[k][2] >= preds[k][1]) >>]

PredictionsByResult(preds) ==
    [k \in 1 .. Len(preds) |->
        << BoolInt(preds[k][1] > preds[k][2]), BoolInt(preds[k][2] > preds[k][1]) >>]

PredictionsStructureCount(preds, S) ==
    LET by_result == PredictionsByResult(preds)
        row(i) == << np_sum_over(StructureSlice(Column(by_result, 0), S, i), S),
                     np_sum_over(StructureSlice(Column(by_result, 1), S, i), S) >>
    IN  [k \in 1 .. NumStructures(preds, S) |-> row(k - 1)]

\* the averaged and the counted table: one row per structure
StructureDataframe(ns, labels, scores, S) ==
    LET row(i) == [Structure |-> ns[S * i + 1],
                   c0 |-> scores[i + 1][1],
                   c1 |-> scores[i + 1][2],
                   TrueScore |-> labels[S * i + 1]]
    IN  [k \in 1 .. NumStructures(ns, S) |-> row(k - 1)]

\* [int(pred > 0.5) for pred in scores[:, 1]]
StructFlat(scores) == [k \in 1 .. Len(scores) |-> BoolInt(GtHalf(scores[k][2]))]

M_TestingInfoByStructure(labels, S) == labels

\* [labels[S * i] for i in range(int(len(labels) / S))]
TestingInfoByStructure(labels, S) ==
    LET pick(i) == labels[S * i + 1]
    IN  [k \in 1 .. NumStructures(labels, S) |-> pick(k - 1)]

----------------------------------------------------------------------------
\* sklearn.metrics, by its documented behaviour.

Occurrences(xs, v) == Cardinality({k \in 1 .. Len(xs) : xs[k] = v})

\* sorted unique labels of both sequences
RECURSIVE SortedSeq(_)
SortedSeq(S) ==
    IF S = {} THEN << >>
    ELSE LET m == CHOOSE x \in S : \A y \in S : x <= y
         IN  << m >> \o SortedSeq(S \ {m})

UniqueLabels(y_true, y_pred) ==
    SortedSeq({y_true[k] : k \in 1 .. Len(y_true)} \cup {y_pred[k] : k \in 1 .. Len(y_pred)})

\* confusion_matrix(y_true, y_pred): C[i][j] counts the samples whose
\* y_true is the i-th label and whose y_pred is the j-th label.
confusion_matrix(y_true, y_pred) ==
    LET labs == UniqueLabels(y_true, y_pred)
        n == Min(Len(y_true), Len(y_pred))
    IN  [i \in 1 .. Len(labs) |-> [j \in 1 .. Len(labs) |->
            Cardinality({k \in 1 .. n : y_true[k] = labs[i] /\ y_pred[k] = labs[j]})]]

\* classification_report(y_true, y_pred, output_dict=True): per label the
\* counts precision, recall and f1 are made of, and the support.
classification_report(y_true, y_pred) ==
    LET labs == UniqueLabels(y_true, y_pred)
        n == Min(Len(y_true), Len(y_pred))
    IN  [i \in 1 .. Len(labs) |->
            [label |-> labs[i],
             tp |-> Cardinality({k \in 1 .. n : y_true[k] = labs[i] /\ y_pred[k] = labs[i]}),
             predicted |-> Occurrences(y_pred, labs[i]),
             support |-> Occurrences(y_true, labs[i])]]

M_PerImageConf(decoded, labels) == confusion_matrix(labels, decoded)

\* confusion_matrix(predictions_decoded, testing_dataframe["Labels"])
PerImageConf(decoded, labels) == confusion_matrix(decoded, labels)

\* confusion_matrix(predictions_struct_avg_flat, testing_info_by_structure)
StructureAvgConf(flat, info) == confusion_matrix(flat, info)

\* confusion_matrix(predictions_struct_count_flat, testing_info_by_structure)
StructureCountConf(flat, info) == confusion_matrix(flat, info)

----------------------------------------------------------------------------
\* The run.

Unset == << >>

Init ==
    /\ pc = "load_model"
    /\ error = "none"
    /\ returned = FALSE
    /\ slices_per_structure \in 1 .. MaxS
    /\ test_dir \in Listings
    /\ database \in Databases
    /\ train_files = Unset /\ names = Unset /\ train_labels = Unset
    /\ predict_calls = 0
    /\ predictions = Unset /\ predictions_decoded = Unset
    /\ per_image_class = Unset /\ per_image_conf = Unset
    /\ predictions_structure_avg = Unset /\ average_dataframe = Unset
    /\ predictions_structure_count = Unset /\ counted_dataframe = Unset
    /\ predictions_struct_avg_flat = Unset /\ predictions_struct_count_flat = Unset
    /\ testing_info_by_structure = Unset
    /\ structure_avg_class = Unset /\ structure_avg_conf = Unset
    /\ structure_count_class = Unset /\ structure_count_conf = Unset
    /\ written = << >>

Stages == << "load_model", "list_files", "read_labels", "predict", "make_output_dir",
             "save_raw", "per_image", "save_averaged", "save_counted",
             "structure_avg", "structure_count", "done" >>

NextStage(p) ==
    LET k == CHOOSE i \in 1 .. Len(Stages) : Stages[i] = p
    IN  Stages[Min(k + 1, Len(Stages))]

M_Raise(exc) == pc' = NextStage(pc) /\ error' = exc

\* an exception leaves evaluate(): every handler logs and re-raises
Raise(exc) == pc' = "failed" /\ error' = exc

Goto(stage) == pc' = stage /\ error' = error

\* DataFrame.to_csv of the files fs, in order
ToCsv(fs) == written' = written \o fs

\* a to_csv of fs fails after n of them were written
ToCsvFails(fs, n) == written' = written \o SubSeq(fs, 1, n) /\ Raise("OSError")

\* lines 27-34
LoadModel ==
    /\ pc = "load_model"
    /\ \/ Goto("list_files")
       \/ Raise("load_model")
    /\ UNCHANGED << returned, inputs, files_vars, predict_calls, predictions,
                    predictions_decoded, image_vars, avg_vars, count_vars, flat_vars,
                    scount_vars, written >>

\* lines 36-50
ListFiles ==
    /\ pc = "list_files"
    /\ train_files' = test_dir
    /\ IF CardinalityOk(train_files', slices_per_structure)
       THEN Goto("read_labels")
       ELSE Raise("AssertionError")
    /\ UNCHANGED << returned, inputs, names, train_labels, predict_calls, predictions,
                    predictions_decoded, image_vars, avg_vars, count_vars, flat_vars,
                    scount_vars, written >>

\* lines 52-66
ReadLabels ==
    /\ pc = "read_labels"
    /\ \/ /\ Raise("sqlite3.Error")
          /\ UNCHANGED << names, train_labels >>
       \/ /\ names' = Names(train_files)
          /\ IF \A k \in 1 .. Len(names') : names'[k] \in DOMAIN database
             THEN train_labels' = TrainLabels(names', database) /\ Goto("predict")
             ELSE train_labels' = train_labels /\ Raise("KeyError")
    /\ UNCHANGED << returned, inputs, train_files, predict_calls, predictions,
                    predictions_decoded, image_vars, avg_vars, count_vars, flat_vars,
                    scount_vars, written >>

\* lines 68-95
Predict ==
    /\ pc = "predict"
    /\ predict_calls' = predict_calls + 1
    /\ \/ /\ Raise("predict_generator")
          /\ UNCHANGED << predictions, predictions_decoded >>
       \/ \E p \in PredictionSets(IntDiv(Len(train_files), slices_per_structure)
                                    * slices_per_structure) :
             /\ predictions' = p
             /\ predictions_decoded' = PredictionsDecoded(p)
             /\ Goto("make_output_dir")
    /\ UNCHANGED << returned, inputs, files_vars, image_vars, avg_vars, count_vars,
                    flat_vars, scount_vars, written >>

\* lines 97-110
MakeOutputDir ==
    /\ pc = "make_output_dir"
    /\ \/ Goto("save_raw")
       \/ Raise("mkdir")
    /\ UNCHANGED << returned, inputs, files_vars, predict_calls, predictions,
                    predictions_decoded, image_vars, avg_vars, count_vars, flat_vars,
                    scount_vars, written >>

\* lines 112-122
SaveRaw ==
    /\ pc = "save_raw"
    /\ \/ /\ Len(predictions) = Len(train_files) /\ Len(train_labels) = Len(train_files)
          /\ \/ ToCsv(<< "raw_predictions.csv" >>) /\ Goto("per_image")
             \/ ToCsvFails(<< "raw_predictions.csv" >>, 0)
       \/ /\ ~(Len(predictions) = Len(train_files) /\ Len(train_labels) = Len(train_files))
          /\ written' = written /\ Raise("ValueError")
    /\ UNCHANGED << returned, inputs, files_vars, predict_calls, predictions,
                    predictions_decoded, image_vars, avg_vars, count_vars, flat_vars,
                    scount_vars >>

\* lines 124-136
PerImageAnalysis ==
    /\ pc = "per_image"
    /\ \/ /\ Raise("classification_report")
          /\ UNCHANGED << image_vars, written >>
       \/ /\ per_image_class' = classification_report(predictions_decoded, train_labels)
          /\ per_image_conf' = PerImageConf(predictions_decoded, train_labels)
          /\ \/ ToCsv(<< "per_image_class.csv", "per_image_conf.csv" >>)
                /\ Goto("save_averaged")
             \/ \E n \in 0 .. 1 :
                    ToCsvFails(<< "per_image_class.csv", "per_image_conf.csv" >>, n)
    /\ UNCHANGED << returned, inputs, files_vars, predict_calls, predictions,
                    predictions_decoded, avg_vars, count_vars, flat_vars, scount_vars >>

\* lines 138-178
SaveAveraged ==
    /\ pc = "save_averaged"
    /\ predictions_structure_avg' =
           PredictionsStructureAvg(predictions, slices_per_structure)
    /\ average_dataframe' = StructureDataframe(names, train_labels,
                                predictions_structure_avg', slices_per_structure)
    /\ \/ ToCsv(<< "averaged_predictions.csv" >>) /\ Goto("save_counted")
       \/ ToCsvFails(<< "averaged_predictions.csv" >>, 0)
    /\ UNCHANGED << returned, inputs, files_vars, predict_calls, predictions,
                    predictions_decoded, image_vars, count_vars, flat_vars, scount_vars >>

\* lines 180-223
SaveCounted ==
    /\ pc = "save_counted"
    /\ predictions_structure_count' =
           PredictionsStructureCount(predictions, slices_per_structure)
    /\ counted_dataframe' = StructureDataframe(names, train_labels,
                                predictions_structure_count', slices_per_structure)
    /\ \/ ToCsv(<< "counted_predictions.csv" >>) /\ Goto("structure_avg")
       \/ ToCsvFails(<< "counted_predictions.csv" >>, 0)
    /\ UNCHANGED << returned, inputs, files_vars, predict_calls, predictions,
                    predictions_decoded, image_vars, avg_vars, flat_vars, scount_vars >>

\* lines 225-251
StructureAvgReport ==
    /\ pc = "structure_avg"
    /\ predictions_struct_avg_flat' = StructFlat(predictions_structure_avg)
    /\ predictions_struct_count_flat' = StructFlat(predictions_structure_count)
    /\ testing_info_by_structure' =
           TestingInfoByStructure(train_labels, slices_per_structure)
    /\ \/ /\ Raise("classification_report")
          /\ UNCHANGED << structure_avg_class, structure_avg_conf, written >>
       \/ /\ structure_avg_class' = classification_report(
                 predictions_struct_avg_flat', testing_info_by_structure')
          /\ structure_avg_conf' = StructureAvgConf(
                 predictions_struct_avg_flat', testing_info_by_structure')
          /\ \/ ToCsv(<< "average_class.csv", "average_conf.csv" >>)
                /\ Goto("structure_count")
             \/ \E n \in 0 .. 1 :
                    ToCsvFails(<< "average_class.csv", "average_conf.csv" >>, n)
    /\ UNCHANGED << returned, inputs, files_vars, predict_calls, predictions,
                    predictions_decoded, image_vars, avg_vars, count_vars, scount_vars >>

\* lines 253-270
StructureCountReport ==
    /\ pc = "structure_count"
    /\ \/ /\ Raise("classification_report")
          /\ UNCHANGED << scount_vars, written, returned >>
       \/ /\ structure_count_class' = classification_report(
                 predictions_struct_count_flat, testing_info_by_structure)
          /\ structure_count_conf' = StructureCountConf(
                 predictions_struct_count_flat, testing_info_by_structure)
          /\ \/ /\ ToCsv(<< "count_class.csv", "count_conf.csv" >>)
                /\ Goto("done")
                /\ returned' = TRUE
             \/ /\ \E n \in 0 .. 1 :
                       ToCsvFails(<< "count_class.csv", "count_conf.csv" >>, n)
                /\ returned' = returned
    /\ UNCHANGED << inputs, files_vars, predict_calls, predictions,
                    predictions_decoded, image_vars, avg_vars, count_vars, flat_vars >>

Next ==
    \/ LoadModel
    \/ ListFiles
    \/ ReadLabels
    \/ Predict
    \/ MakeOutputDir
    \/ SaveRaw
    \/ PerImageAnalysis
    \/ SaveAveraged
    \/ SaveCounted
    \/ StructureAvgReport
    \/ StructureCountReport

Spec == Init /\ [][Next]_vars

----------------------------------------------------------------------------
\* Vocabulary of the properties.

L == Len(train_files)
S == slices_per_structure

\* the slices (1-based indices) of batch i, i in range(L / S)
BatchIndices(i) == { S * i + k : k \in 1 .. S }

Positive(k) == predictions[k][2]
Negative(k) == predictions[k][1]
PositiveDominant(k) == Positive(k) > Negative(k)

\* number of positive-dominant slices of batch i
DominantCount(i) == Cardinality({k \in BatchIndices(i) : PositiveDominant(k)})

\* sum of the positive scores of the slices I, in halves
RECURSIVE SumPositive(_)
SumPositive(I) ==
    IF I = {} THEN 0
    ELSE LET k == CHOOSE x \in I : TRUE IN Positive(k) + SumPositive(I \ {k})

PositiveSum(i) == SumPositive(BatchIndices(i))

\* every slice of batch i has scores that sum to 1
Normalised(i) == \A k \in BatchIndices(i) : Positive(k) + Negative(k) = 2

AveragedDone == predictions_structure_avg # Unset
CountedDone == predictions_structure_count # Unset
DecisionsDone == predictions_struct_avg_flat # Unset

RECURSIVE Concat(_)
Concat(seqs) == IF seqs = << >> THEN << >> ELSE seqs[1] \o Concat(Tail(seqs))

\* sum of all cells of a matrix
MatrixSum(m) ==
    LET rowsum(i) == SeqSum(m[i])
    IN  SeqSum([i \in 1 .. Len(m) |-> rowsum(i)])

\* cell (i, j) of m counts the samples predicted as the i-th and truly of the
\* j-th of the sorted labels that occur
CellsArePredictedByTrue(m, predicted, true) ==
    LET labs == UniqueLabels(predicted, true)
    IN  /\ Len(m) = Len(labs)
        /\ \A i, j \in 1 .. Len(labs) :
              m[i][j] = Cardinality({k \in 1 .. Len(predicted) :
                            predicted[k] = labs[i] /\ true[k] = labs[j]})

\* the report's support column counts its first argument, the predictions
SupportIsOfPredicted(report, predicted) ==
    \A i \in 1 .. Len(report) :
        report[i].support = Occurrences(predicted, report[i].label)

IsPrefix(xs, ys) == Len(xs) <= Len(ys) /\ xs = SubSeq(ys, 1, Len(xs))

----------------------------------------------------------------------------
\* C1: once both per-structure aggregates exist, each has exactly L/S rows,
\* row i aggregates exactly the S slices at indices [S*i, S*i+S), and the
\* batches concatenated in order are the prediction sequence.
Thm_C1_Partition ==
    (AveragedDone /\ CountedDone) =>
        LET nb == L \div S
            batch(i) == StructureSlice(predictions, S, i)
        IN  /\ Len(predictions) = L /\ L > 0 /\ L % S = 0
            /\ Len(predictions_structure_avg) = nb
            /\ Len(predictions_structure_count) = nb
            /\ \A i \in Range(nb) :
                  /\ batch(i) = [k \in 1 .. S |-> predictions[S * i + k]]
                  /\ predictions_structure_avg[i + 1][2] =
                         [num |-> PositiveSum(i), den |-> 2 * S]
                  /\ predictions_structure_count[i + 1][2] =
                         [num |-> DominantCount(i), den |-> S]
            /\ Concat([k \in 1 .. nb |-> batch(k - 1)]) = predictions

Wit_C1_TwoBatches ==
    pc = "done" /\ S = 2 /\ L = 4 /\ Len(predictions_structure_avg) = 2
    /\ predictions[1] # predictions[3]

\* C2: with no test file, or a number of them that is no multiple of
\* slices_per_structure, the run ends in the assertion error (unless the model
\* did not even load), never predicts, writes nothing and does not return True.
Thm_C2_BadCardinality ==
    (Len(test_dir) = 0 \/ Len(test_dir) % S # 0) =>
        /\ pc \in {"load_model", "list_files", "failed"}
        /\ (pc = "failed" /\ error # "load_model") => error = "AssertionError"
        /\ predict_calls = 0
        /\ predictions = Unset
        /\ written = << >>
        /\ ~returned

Wit_C2_NotMultiple ==
    pc = "failed" /\ error = "AssertionError" /\ Len(train_files) = 3 /\ S = 2

\* C3 as stated: a batch whose slices are all positive-dominant gets 1 from
\* both structure decisions, a batch with no positive-dominant slice gets 0 from
\* both, whatever the scores.
Cex_C3_AnyScores ==
    DecisionsDone =>
        \A i \in Range(L \div S) :
            /\ DominantCount(i) = S =>
                  /\ predictions_struct_avg_flat[i + 1] = 1
                  /\ predictions_struct_count_flat[i + 1] = 1
            /\ DominantCount(i) = 0 =>
                  /\ predictions_struct_avg_flat[i + 1] = 0
                  /\ predictions_struct_count_flat[i + 1] = 0

\* C3 amended: the count-based decision is 1 for count_fraction 1 and 0 for
\* count_fraction 0; the average-based decision agrees with it on the batches
\* whose slices all have scores that sum to 1.
Thm_C3_Normalised ==
    DecisionsDone =>
        \A i \in Range(L \div S) :
            /\ DominantCount(i) = S =>
                  /\ predictions_struct_count_flat[i + 1] = 1
                  /\ Normalised(i) => predictions_struct_avg_flat[i + 1] = 1
            /\ DominantCount(i) = 0 =>
                  /\ predictions_struct_count_flat[i + 1] = 0
                  /\ Normalised(i) => predictions_struct_avg_flat[i + 1] = 0

Wit_C3_Normalised ==
    /\ DecisionsDone /\ S = 2 /\ L = 4
    /\ Normalised(0) /\ DominantCount(0) = 2
    /\ Normalised(1) /\ DominantCount(1) = 0 /\ PositiveSum(1) = 2

\* C4: the slice decision is 1 exactly when positive > negative, and the
\* average-based decision is 1 exactly when the mean positive score exceeds
\* 0.5; equality gives 0 in both.
Thm_C4_TieBreak ==
    /\ predictions_decoded # Unset =>
          /\ Len(predictions_decoded) = Len(predictions)
          /\ \A k \in 1 .. Len(predictions) :
                predictions_decoded[k] = (IF Positive(k) > Negative(k) THEN 1 ELSE 0)
    /\ DecisionsDone =>
          \A i \in Range(L \div S) :
              predictions_struct_avg_flat[i + 1] =
                  (IF PositiveSum(i) > S THEN 1 ELSE 0)

Wit_C4_Ties ==
    /\ DecisionsDone /\ S = 2
    /\ Positive(1) = Negative(1) /\ predictions_decoded[1] = 0
    /\ PositiveSum(0) = S /\ predictions_struct_avg_flat[1] = 0

\* C5: the count-based decision of a batch is 1 exactly when more than half of
\* its S slices have positive > negative.
Thm_C5_CountDecision ==
    DecisionsDone =>
        \A i \in Range(L \div S) :
            predictions_struct_count_flat[i + 1] =
                (IF 2 * DominantCount(i) > S THEN 1 ELSE 0)

Wit_C5_HalfAndTie ==
    /\ DecisionsDone /\ S = 2 /\ L = 4
    /\ DominantCount(0) = 2 /\ predictions_struct_count_flat[1] = 1
    /\ DominantCount(1) = 1 /\ predictions_struct_count_flat[2] = 0
    /\ Positive(3) = Negative(3)

\* C6: in every row of the counted table the "0" column is 1 minus the "1"
\* column (the count fraction).
Cex_C6_ColumnsSumToOne ==
    counted_dataframe # Unset =>
        \A r \in 1 .. Len(counted_dataframe) :
            /\ counted_dataframe[r].c0.den = counted_dataframe[r].c1.den
            /\ counted_dataframe[r].c0.num =
                   counted_dataframe[r].c0.den - counted_dataframe[r].c1.num

\* C7: every slice of batch i has the structure name and the label that row i
\* of the averaged and counted tables and the per-structure truth carry.
Cex_C7_BatchIsOneStructure ==
    /\ average_dataframe # Unset =>
          \A i \in Range(L \div S) : \A k \in BatchIndices(i) :
              /\ names[k] = average_dataframe[i + 1].Structure
              /\ train_labels[k] = average_dataframe[i + 1].TrueScore
    /\ counted_dataframe # Unset =>
          \A i \in Range(L \div S) : \A k \in BatchIndices(i) :
              /\ names[k] = counted_dataframe[i + 1].Structure
              /\ train_labels[k] = counted_dataframe[i + 1].TrueScore
    /\ testing_info_by_structure # Unset =>
          \A i \in Range(L \div S) : \A k \in BatchIndices(i) :
              train_labels[k] = testing_info_by_structure[i + 1]

\* C8: in the three confusion matrices rows are predicted classes and columns
\* true classes, and the three classification reports take the predictions as
\* their first argument too.
Thm_C8_RowsArePredicted ==
    /\ per_image_conf # Unset =>
          /\ CellsArePredictedByTrue(per_image_conf, predictions_decoded, train_labels)
          /\ SupportIsOfPredicted(per_image_class, predictions_decoded)
    /\ structure_avg_conf # Unset =>
          /\ CellsArePredictedByTrue(structure_avg_conf,
                 predictions_struct_avg_flat, testing_info_by_structure)
          /\ SupportIsOfPredicted(structure_avg_class, predictions_struct_avg_flat)
    /\ structure_count_conf # Unset =>
          /\ CellsArePredictedByTrue(structure_count_conf,
                 predictions_struct_count_flat, testing_info_by_structure)
          /\ SupportIsOfPredicted(structure_count_class, predictions_struct_count_flat)

Wit_C8_Asymmetric ==
    /\ pc = "done"
    /\ Len(per_image_conf) = 2 /\ per_image_conf[1][2] # per_image_conf[2][1]
    /\ Len(structure_avg_conf) = 2
    /\ structure_avg_conf[1][2] # structure_avg_conf[2][1]
    /\ Len(structure_count_conf) = 2
    /\ structure_count_conf[1][2] # structure_count_conf[2][1]

\* C9: each report is built from a predicted and a true sequence of one
\* length, L per slice and L/S per structure, and the cells of its confusion
\* matrix add up to that length.
Thm_C9_MatrixSum ==
    /\ per_image_conf # Unset =>
          /\ Len(predictions_decoded) = L /\ Len(train_labels) = L
          /\ MatrixSum(per_image_conf) = L
    /\ structure_avg_conf # Unset =>
          /\ Len(predictions_struct_avg_flat) = L \div S
          /\ Len(testing_info_by_structure) = L \div S
          /\ MatrixSum(structure_avg_conf) = L \div S
    /\ structure_count_conf # Unset =>
          /\ Len(predictions_struct_count_flat) = L \div S
          /\ Len(testing_info_by_structure) = L \div S
          /\ MatrixSum(structure_count_conf) = L \div S

Wit_C9_AllReports ==
    pc = "done" /\ S = 2 /\ L = 4 /\ MatrixSum(per_image_conf) = 4
    /\ MatrixSum(structure_avg_conf) = 2 /\ MatrixSum(structure_count_conf) = 2

\* C10 as stated: a run that failed did not return True, no stage runs after
\* the failure, and it leaves all of the output files or none.
Cex_C10_AllOrNone ==
    error # "none" =>
        /\ pc = "failed" /\ ~returned /\ ~ENABLED Next
        /\ written = << >> \/ written = WriteOrder

\* C10 amended: a run that failed did not return True and no stage runs after
\* the failure; it leaves the files written before the failing step, a strict
\* prefix of the output files in write order, and only a run that returns True
\* leaves them all.
Thm_C10_AbortKeepsPrefix ==
    /\ IsPrefix(written, WriteOrder)
    /\ error # "none" =>
          /\ pc = "failed" /\ ~returned /\ ~ENABLED Next
          /\ Len(written) < Len(WriteOrder)
    /\ pc = "failed" => error # "none"
    /\ returned <=> (pc = "done" /\ error = "none" /\ written = WriteOrder)

Wit_C10_PartialOutput ==
    pc = "failed" /\ error = "OSError"
    /\ written = << "raw_predictions.csv", "per_image_class.csv" >>

\* C11 as stated: inference runs at most once and only after the cardinality
\* check passed, aggregation only after inference, every report (the per-slice
\* one included) only after the aggregation and both structure decisions, and
\* the return only after the reports.
Cex_C11_ReportsAfterAggregation ==
    /\ predict_calls <= 1
    /\ pc \in {"load_model", "list_files"} => predict_calls = 0
    /\ predict_calls = 1 => (L > 0 /\ L % S = 0)
    /\ (AveragedDone \/ CountedDone) => (predict_calls = 1 /\ predictions # Unset)
    /\ DecisionsDone => (AveragedDone /\ CountedDone)
    /\ (per_image_conf # Unset \/ structure_avg_conf # Unset
            \/ structure_count_conf # Unset) =>
          (AveragedDone /\ CountedDone /\ DecisionsDone)
    /\ returned => (per_image_conf # Unset /\ structure_avg_conf # Unset
                       /\ structure_count_conf # Unset)

\* C11 amended: inference runs at most once and only after the cardinality
\* check passed; the per-slice report is built after inference and the slice
\* decisions but before the batch aggregation; the aggregation follows it, both
\* structure decisions for all batches follow the aggregation, each
\* per-structure report follows both decisions, and the return follows all
\* three reports.
Thm_C11_StageOrder ==
    /\ predict_calls <= 1
    /\ pc \in {"load_model", "list_files"} => predict_calls = 0
    /\ predict_calls = 1 => (L > 0 /\ L % S = 0)
    /\ predictions # Unset => predict_calls = 1
    /\ per_image_conf # Unset =>
          (predictions # Unset /\ Len(predictions_decoded) = L)
    /\ (AveragedDone \/ CountedDone) => per_image_conf # Unset
    /\ CountedDone => AveragedDone
    /\ DecisionsDone => (AveragedDone /\ CountedDone)
    /\ (structure_avg_conf # Unset \/ structure_count_conf # Unset) =>
          /\ DecisionsDone
          /\ Len(predictions_struct_avg_flat) = L \div S
          /\ Len(predictions_struct_count_flat) = L \div S
    /\ structure_count_conf # Unset => structure_avg_conf # Unset
    /\ returned => (pc = "done" /\ structure_count_conf # Unset)

Wit_C11_ReportBeforeAggregation ==
    /\ pc = "save_averaged" /\ predict_calls = 1 /\ S = 2 /\ L = 4
    /\ per_image_conf # Unset /\ ~AveragedDone /\ ~DecisionsDone

====
